---- MODULE Spec2Model ----
(***************************************************************************)
(* porkbun-cli: one invocation of `porkbun` (src/main.rs).                 *)
(*                                                                         *)
(* An invocation parses its arguments and environment, sends one HTTP POST *)
(* to the Porkbun API, decodes the JSON answer into the response shape of  *)
(* the command, checks its status and prints a table or a confirmation.    *)
(* main() is one async function; the model cuts it at its only suspension  *)
(* point, the round trip `.send().await ... .json().await`.                *)
(*                                                                         *)
(* Strings are TLA+ strings, format!() is \o.  Option<T> is a sequence of  *)
(* length 0 (None) or 1 (Some).  A JSON object is a function from its keys *)
(* to JSON values.                                                         *)
(***************************************************************************)
EXTENDS Naturals, Sequences, FiniteSets, TLC

VARIABLES
    pc,         \* "start" | "awaiting" | "done": where main() is
    inv,        \* the invocation: flags, environment, subcommand and its args
    requests,   \* the HTTP POSTs issued so far, in order: [url, body]
    body_in,    \* Option: the JSON body the API answered with
    resp,       \* Option: the decoded response struct (`resp` in main)
    stdout,     \* what println! wrote, in order
    err,        \* Option: the error the invocation failed with
    exit_code   \* Option: the process exit status

vars == <<pc, inv, requests, body_in, resp, stdout, err, exit_code>>

----------------------------------------------------------------------------
(* Option<T> *)

None == <<>>

Some(v) == <<v>>

unwrap_or(o, d) == IF o = None THEN d ELSE o[1]

----------------------------------------------------------------------------
(* JSON values (serde_json::Value) *)

JNull == [t |-> "null", s |-> "", n |-> 0, a |-> <<>>]

JString(str) == [t |-> "string", s |-> str, n |-> 0, a |-> <<>>]

JNumber(num) == [t |-> "number", s |-> "", n |-> num, a |-> <<>>]

JArray(items) == [t |-> "array", s |-> "", n |-> 0, a |-> items]

Digit(d) ==
    CASE d = 0 -> "0" [] d = 1 -> "1" [] d = 2 -> "2" [] d = 3 -> "3"
      [] d = 4 -> "4" [] d = 5 -> "5" [] d = 6 -> "6" [] d = 7 -> "7"
      [] d = 8 -> "8" [] d = 9 -> "9"

RECURSIVE Decimal(_)
Decimal(num) ==
    IF num < 10 THEN Digit(num) ELSE Decimal(num \div 10) \o Digit(num % 10)

\* `v.to_string()` on a serde_json::Value: the value's JSON text, so a string
\* keeps its quotes.
ValueToString(v) ==
    CASE v.t = "string" -> "\"" \o v.s \o "\""
      [] v.t = "number" -> Decimal(v.n)
      [] v.t = "null"   -> "null"

----------------------------------------------------------------------------
(* The inputs of an invocation *)

BASE_URL == "https://api.porkbun.com/api/json/v3"

ApiKeyFlags == {None, Some("pk1_flag")}
ApiKeyEnvs == {None, Some("pk1_env")}
SecretKeyFlags == {None, Some("sk1_flag")}
SecretKeyEnvs == {None, Some("sk1_env")}

DomainNames == {"example.com"}
RecordTypes == {"A"}
Contents == {"1.2.3.4"}
RecordIds == {"42"}
\* -n/--name: omitted, given empty, given a label; "root" is a label too.
NameOptions == {None, Some(""), Some("www"), Some("root")}
TtlOptions == {None, Some("600")}
PrioOptions == {None, Some("10")}

Credentials ==
    [api_key_flag : ApiKeyFlags, api_key_env : ApiKeyEnvs,
     secret_key_flag : SecretKeyFlags, secret_key_env : SecretKeyEnvs]

\* The subcommand and its arguments; an argument the subcommand does not
\* take is "" or None.
CommandLines ==
    [command : {"domains"}, domain : {""}, id : {""}, record_type : {""},
     content : {""}, name : {None}, ttl : {None}, prio : {None}]
    \cup
    [command : {"list"}, domain : DomainNames, id : {""}, record_type : {""},
     content : {""}, name : {None}, ttl : {None}, prio : {None}]
    \cup
    [command : {"create"}, domain : DomainNames, id : {""},
     record_type : RecordTypes, content : Contents, name : NameOptions,
     ttl : TtlOptions, prio : PrioOptions]
    \cup
    [command : {"edit"}, domain : DomainNames, id : RecordIds,
     record_type : RecordTypes, content : Contents, name : NameOptions,
     ttl : TtlOptions, prio : PrioOptions]
    \cup
    [command : {"delete"}, domain : DomainNames, id : RecordIds,
     record_type : {""}, content : {""}, name : {None}, ttl : {None},
     prio : {None}]
    \cup
    [command : {"delete-by-name-type"}, domain : DomainNames, id : {""},
     record_type : RecordTypes, content : {""}, name : NameOptions,
     ttl : {None}, prio : {None}]

----------------------------------------------------------------------------
(* Cli::parse and the request bodies *)

\* #[arg(long, env = ...)]: the flag if given, else the environment variable.
ArgOrEnv(flag, env) == IF flag # None THEN flag ELSE env

\* A faulty parser: a missing credential defaults to the empty string.
Cli_parse_EmptyDefault(creds) ==
    [ok |-> TRUE,
     api_key |-> unwrap_or(ArgOrEnv(creds.api_key_flag, creds.api_key_env), ""),
     secret_key |-> unwrap_or(ArgOrEnv(creds.secret_key_flag, creds.secret_key_env), "")]

\* Cli::parse(): both credentials are required Strings; clap exits with
\* status 2 before main continues when one has no value.
Cli_parse(creds) ==
    LET k == ArgOrEnv(creds.api_key_flag, creds.api_key_env)
        s == ArgOrEnv(creds.secret_key_flag, creds.secret_key_env)
    IN  IF k = None \/ s = None
        THEN [ok |-> FALSE, api_key |-> "", secret_key |-> ""]
        ELSE [ok |-> TRUE, api_key |-> k[1], secret_key |-> s[1]]

\* let auth = Auth { apikey: cli.api_key.clone(), secretapikey: ... }
Auth(cli) == [apikey |-> cli.api_key, secretapikey |-> cli.secret_key]

\* #[derive(Serialize)] struct Auth
Serialize_Auth(auth) ==
    [k \in {"apikey", "secretapikey"} |->
        IF k = "apikey" THEN JString(auth.apikey) ELSE JString(auth.secretapikey)]

\* CreateEditRecord { auth, name, record_type, content, ttl, prio }
CreateEditRecord(auth, cmd) ==
    [auth |-> auth, name |-> cmd.name, record_type |-> cmd.record_type,
     content |-> cmd.content, ttl |-> cmd.ttl, prio |-> cmd.prio]

\* A faulty serializer: no skip_serializing_if, so None is sent as null.
Serialize_CreateEditRecord_NoSkip(r) ==
    [k \in {"apikey", "secretapikey", "name", "type", "content", "ttl", "prio"} |->
        CASE k = "apikey"       -> JString(r.auth.apikey)
          [] k = "secretapikey" -> JString(r.auth.secretapikey)
          [] k = "name"    -> IF r.name = None THEN JNull ELSE JString(r.name[1])
          [] k = "type"    -> JString(r.record_type)
          [] k = "content" -> JString(r.content)
          [] k = "ttl"     -> IF r.ttl = None THEN JNull ELSE JString(r.ttl[1])
          [] k = "prio"    -> IF r.prio = None THEN JNull ELSE JString(r.prio[1])]

\* #[derive(Serialize)] struct CreateEditRecord: auth is flattened, record_type
\* is renamed "type", and name, ttl, prio are skipped when None.
Serialize_CreateEditRecord(r) ==
    LET keys == {"apikey", "secretapikey", "type", "content"}
                \cup (IF r.name = None THEN {} ELSE {"name"})
                \cup (IF r.ttl = None THEN {} ELSE {"ttl"})
                \cup (IF r.prio = None THEN {} ELSE {"prio"})
    IN  [k \in keys |->
            CASE k = "apikey"       -> Serialize_Auth(r.auth)["apikey"]
              [] k = "secretapikey" -> Serialize_Auth(r.auth)["secretapikey"]
              [] k = "name"    -> JString(r.name[1])
              [] k = "type"    -> JString(r.record_type)
              [] k = "content" -> JString(r.content)
              [] k = "ttl"     -> JString(r.ttl[1])
              [] k = "prio"    -> JString(r.prio[1])]

\* A faulty URL builder: the subdomain segment is always appended.
DeleteByNameTypeUrl_AlwaysThree(domain, record_type, name) ==
    BASE_URL \o "/dns/deleteByNameType/" \o domain \o "/" \o record_type
        \o "/" \o unwrap_or(name, "")

\* let subdomain = name.as_deref().unwrap_or(""); let url = if
\* subdomain.is_empty() { two segments } else { three segments }
DeleteByNameTypeUrl(domain, record_type, name) ==
    LET subdomain == unwrap_or(name, "")
    IN  IF subdomain = ""
        THEN BASE_URL \o "/dns/deleteByNameType/" \o domain \o "/" \o record_type
        ELSE BASE_URL \o "/dns/deleteByNameType/" \o domain \o "/" \o record_type
                \o "/" \o subdomain

----------------------------------------------------------------------------
(* The answers of the API: JSON objects, well-formed and not *)

MaxItems == 2

\* One JSON object from a set of (key, value) pairs with distinct keys.
Obj(pairs) ==
    [k \in {p[1] : p \in pairs} |-> (CHOOSE p \in pairs : p[1] = k)[2]]

DomainItems ==
    { Obj({<<"domain", JString("example.com")>>, <<"status", JString("ACTIVE")>>,
           <<"createDate", JString("2020-01-01")>>,
           <<"expireDate", JString("2030-01-01")>>}),
      Obj({<<"domain", JString("example.org")>>, <<"status", JString("ACTIVE")>>}),
      Obj({<<"status", JString("ACTIVE")>>}) }

RecordItems ==
    { Obj({<<"id", JString("42")>>, <<"name", JString("www.example.com")>>,
           <<"type", JString("MX")>>, <<"content", JString("mail.example.com")>>,
           <<"ttl", JString("600")>>, <<"prio", JString("10")>>,
           <<"notes", JString("mx")>>}),
      Obj({<<"id", JString("43")>>, <<"name", JString("example.com")>>,
           <<"type", JString("A")>>, <<"content", JString("1.2.3.4")>>,
           <<"ttl", JString("600")>>, <<"prio", JNull>>}),
      Obj({<<"id", JNumber(44)>>, <<"name", JString("example.com")>>,
           <<"type", JString("A")>>, <<"content", JString("1.2.3.4")>>,
           <<"ttl", JString("600")>>}) }

ListsOf(S) == UNION {[1..n -> S] : n \in 0..MaxItems}

\* The part of a body besides status and message: nothing, or one of the
\* keys a response shape reads.
Payloads ==
    {{}}
    \cup {{<<"domains", JArray(l)>>} : l \in ListsOf(DomainItems)}
    \cup {{<<"domains", JNull>>}}
    \cup {{<<"records", JArray(l)>>} : l \in ListsOf(RecordItems)}
    \cup {{<<"id", v>>} : v \in {JNull, JNumber(12345), JString("12345")}}

StatusParts ==
    {{}} \cup {{<<"status", JString(s)>>} : s \in {"SUCCESS", "ERROR", "success"}}

MessageParts ==
    {{}} \cup {{<<"message", v>>} : v \in {JNull, JString("Invalid API key")}}

Bodies ==
    {Obj(st \cup m \cup p) : st \in StatusParts, m \in MessageParts, p \in Payloads}

----------------------------------------------------------------------------
(* Decoding: #[derive(Deserialize)] on the response shapes.  A decoder       *)
(* yields None when serde reports an error, Some(value) otherwise; keys a    *)
(* shape does not name are ignored.                                          *)

Has(obj, k) == k \in DOMAIN obj

\* A field of type String without a default.
RequiredString(obj, k) ==
    IF Has(obj, k) /\ obj[k].t = "string" THEN Some(obj[k].s) ELSE None

\* A field of type String with #[serde(default)]: "" when the key is absent.
DefaultString(obj, k) ==
    IF ~Has(obj, k) THEN Some("") ELSE RequiredString(obj, k)

\* A field of type Option<String> with #[serde(default)]: None when the key is
\* absent or null.  The result is an Option of the field's Option.
OptionString(obj, k) ==
    IF ~Has(obj, k) \/ obj[k].t = "null" THEN Some(None)
    ELSE IF obj[k].t = "string" THEN Some(Some(obj[k].s))
    ELSE None

\* A field of type Option<serde_json::Value> with #[serde(default)].
OptionValue(obj, k) ==
    IF ~Has(obj, k) \/ obj[k].t = "null" THEN None ELSE Some(obj[k])

\* struct DomainInfo
Decode_DomainInfo(obj) ==
    LET domain == RequiredString(obj, "domain")
        status == RequiredString(obj, "status")
        expire_date == DefaultString(obj, "expireDate")
        create_date == DefaultString(obj, "createDate")
    IN  IF None \in {domain, status, expire_date, create_date} THEN None
        ELSE Some([domain |-> domain[1], status |-> status[1],
                   expire_date |-> expire_date[1], create_date |-> create_date[1]])

\* struct DnsRecord
Decode_DnsRecord(obj) ==
    LET id == RequiredString(obj, "id")
        name == RequiredString(obj, "name")
        record_type == RequiredString(obj, "type")
        content == RequiredString(obj, "content")
        ttl == RequiredString(obj, "ttl")
        prio == OptionString(obj, "prio")
        notes == OptionString(obj, "notes")
    IN  IF None \in {id, name, record_type, content, ttl} \/ prio = None \/ notes = None
        THEN None
        ELSE Some([id |-> id[1], name |-> name[1], record_type |-> record_type[1],
                   content |-> content[1], ttl |-> ttl[1], prio |-> prio[1],
                   notes |-> notes[1]])

\* The array under key k, or no elements when k holds no array.
ArrayAt(obj, k) == IF Has(obj, k) /\ obj[k].t = "array" THEN obj[k].a ELSE <<>>

\* The elements of "domains", each decoded into an Option of DomainInfo.
DomainElements(obj) ==
    [i \in DOMAIN ArrayAt(obj, "domains") |-> Decode_DomainInfo(ArrayAt(obj, "domains")[i])]

\* The elements of "records", each decoded into an Option of DnsRecord.
RecordElements(obj) ==
    [i \in DOMAIN ArrayAt(obj, "records") |-> Decode_DnsRecord(ArrayAt(obj, "records")[i])]

\* A field of type Vec<T> with #[serde(default)], `items` its decoded
\* elements: empty when the key is absent, an error when the value is no
\* array or an element does not decode.
DefaultVec(obj, k, items) ==
    IF ~Has(obj, k) THEN Some(<<>>)
    ELSE IF obj[k].t # "array" THEN None
    ELSE IF \E i \in DOMAIN items : items[i] = None THEN None
    ELSE Some([i \in DOMAIN items |-> items[i][1]])

\* struct ApiResponse { status, message }
Decode_ApiResponse(obj) ==
    LET status == RequiredString(obj, "status")
        message == OptionString(obj, "message")
    IN  IF status = None \/ message = None THEN None
        ELSE Some([status |-> status[1], message |-> message[1]])

\* struct DomainListResponse { status, message, domains }
Decode_DomainListResponse(obj) ==
    LET base == Decode_ApiResponse(obj)
        domains == DefaultVec(obj, "domains", DomainElements(obj))
    IN  IF base = None \/ domains = None THEN None
        ELSE Some([status |-> base[1].status, message |-> base[1].message,
                   domains |-> domains[1]])

\* struct DnsListResponse { status, message, records }
Decode_DnsListResponse(obj) ==
    LET base == Decode_ApiResponse(obj)
        records == DefaultVec(obj, "records", RecordElements(obj))
    IN  IF base = None \/ records = None THEN None
        ELSE Some([status |-> base[1].status, message |-> base[1].message,
                   records |-> records[1]])

\* struct CreateResponse { status, message, id }
Decode_CreateResponse(obj) ==
    LET base == Decode_ApiResponse(obj)
    IN  IF base = None THEN None
        ELSE Some([status |-> base[1].status, message |-> base[1].message,
                   id |-> OptionValue(obj, "id")])

----------------------------------------------------------------------------
(* check_status and the output *)

Ok == [ok |-> TRUE, msg |-> ""]

Err(m) == [ok |-> FALSE, msg |-> m]

\* A faulty check: only the status "ERROR" is a failure.
check_status_OnlyError(status, message) ==
    IF status = "ERROR"
    THEN Err("API error: " \o unwrap_or(message, "unknown error"))
    ELSE Ok

\* A faulty check: the provider's message is dropped.
check_status_NoMessage(status, message) ==
    IF status # "SUCCESS" THEN Err("API error: unknown error") ELSE Ok

\* fn check_status(status: &str, message: &Option<String>) -> Result<()>
check_status(status, message) ==
    IF status # "SUCCESS"
    THEN Err("API error: " \o unwrap_or(message, "unknown error"))
    ELSE Ok

\* println!("...") of one line of text
Line(text) == [kind |-> "line", text |-> text, header |-> <<>>, rows |-> <<>>]

\* println!("{}", Table::new(rows)): the header row of the Tabled struct and
\* one row per element, in order.
Table(header, rows) == [kind |-> "table", text |-> "", header |-> header, rows |-> rows]

\* #[derive(Tabled)] struct DomainRow and the map in Command::Domains
DomainRow(d) == <<d.domain, d.status, d.create_date, d.expire_date>>

\* fn dns_row(r: DnsRecord) -> DnsRow, with #[derive(Tabled)] struct DnsRow
dns_row(r) ==
    <<r.id, r.name, r.record_type, r.content, r.ttl,
      unwrap_or(r.prio, ""), unwrap_or(r.notes, "")>>

\* A faulty formatter: the table is printed for an empty list too.
PrintDomains_NoEmptyCheck(domains) ==
    <<Table(<<"Domain", "Status", "Created", "Expires">>,
            [i \in DOMAIN domains |-> DomainRow(domains[i])])>>

\* Command::Domains after check_status: what is printed
PrintDomains(domains) ==
    IF domains = <<>>
    THEN <<Line("No domains found.")>>
    ELSE <<Table(<<"Domain", "Status", "Created", "Expires">>,
                 [i \in DOMAIN domains |-> DomainRow(domains[i])])>>

\* DnsAction::List after check_status: what is printed
PrintRecords(domain, records) ==
    IF records = <<>>
    THEN <<Line("No DNS records found for " \o domain \o ".")>>
    ELSE <<Table(<<"ID", "Name", "Type", "Content", "TTL", "Prio", "Notes">>,
                 [i \in DOMAIN records |-> dns_row(records[i])])>>

\* let id_str = resp.id.map(|v| v.to_string()).unwrap_or_else(|| "unknown".into())
id_str(id) == IF id = None THEN "unknown" ELSE ValueToString(id[1])

\* let display_name = name.as_deref().unwrap_or("(root)")
display_name(name) == unwrap_or(name, "(root)")

\* "Created {record_type} record for {display_name}.{domain} -> {content} (id: {id_str})"
CreatedLine(record_type, dname, domain, content, idtext) ==
    "Created " \o record_type \o " record for " \o dname \o "." \o domain
        \o " -> " \o content \o " (id: " \o idtext \o ")"

\* A faulty display: "root" only when the option was omitted.
DeleteByNameTypeDisplay_OmittedOnly(record_type, name) ==
    unwrap_or(name, "root") \o " " \o record_type

\* let display = if subdomain.is_empty() { "root {record_type}" } else
\* { "{subdomain} {record_type}" }
DeleteByNameTypeDisplay(record_type, name) ==
    LET subdomain == unwrap_or(name, "")
    IN  IF subdomain = "" THEN "root " \o record_type
        ELSE subdomain \o " " \o record_type

\* "Deleted {display} records from {domain}."
DeletedByNameTypeLine(display, domain) ==
    "Deleted " \o display \o " records from " \o domain \o "."

----------------------------------------------------------------------------
(* main() *)

Init ==
    /\ pc = "start"
    /\ inv \in [creds : Credentials, cmd : CommandLines]
    /\ requests = <<>>
    /\ body_in = None
    /\ resp = None
    /\ stdout = <<>>
    /\ err = None
    /\ exit_code = None

cli == Cli_parse(inv.creds)

auth == Auth(cli)

\* client.post(url).json(&body).send(): the request leaves, main suspends.
Post(url, body) ==
    /\ requests' = Append(requests, [url |-> url, body |-> body])
    /\ pc' = "awaiting"
    /\ UNCHANGED <<inv, body_in, resp, stdout, err, exit_code>>

\* main returns Err(e): anyhow prints the error and the process exits with 1.
Fail(kind, msg) ==
    /\ pc' = "done"
    /\ err' = Some([kind |-> kind, msg |-> msg])
    /\ exit_code' = Some(1)
    /\ UNCHANGED stdout

\* println!(...) of `out`, then main returns Ok(()): exit status 0.
PrintAndExit(out) ==
    /\ pc' = "done"
    /\ stdout' = stdout \o out
    /\ exit_code' = Some(0)
    /\ UNCHANGED err

\* The response arrives with body `body`, decoded by `.json()` into `decoded`.
Received(body, decoded) ==
    /\ body_in' = Some(body)
    /\ resp' = decoded
    /\ UNCHANGED <<inv, requests>>

DecodeFailed == Fail("DecodeError", "error decoding response body")

\* Cli::parse() rejects the command line: a required credential has neither a
\* flag nor an environment variable.  clap prints its error and exits with 2.
ParseError ==
    /\ pc = "start"
    /\ ~cli.ok
    /\ pc' = "done"
    /\ err' = Some([kind |-> "MissingCredentials",
                    msg |-> "error: the following required arguments were not provided"])
    /\ exit_code' = Some(2)
    /\ UNCHANGED <<inv, requests, body_in, resp, stdout>>

\* Command::Domains, up to the request
SendDomains ==
    /\ pc = "start" /\ cli.ok /\ inv.cmd.command = "domains"
    /\ Post(BASE_URL \o "/domain/listAll", Serialize_Auth(auth))

\* DnsAction::List, up to the request
SendList ==
    /\ pc = "start" /\ cli.ok /\ inv.cmd.command = "list"
    /\ Post(BASE_URL \o "/dns/retrieve/" \o inv.cmd.domain, Serialize_Auth(auth))

\* DnsAction::Create, up to the request
SendCreate ==
    /\ pc = "start" /\ cli.ok /\ inv.cmd.command = "create"
    /\ Post(BASE_URL \o "/dns/create/" \o inv.cmd.domain,
            Serialize_CreateEditRecord(CreateEditRecord(auth, inv.cmd)))

\* DnsAction::Edit, up to the request
SendEdit ==
    /\ pc = "start" /\ cli.ok /\ inv.cmd.command = "edit"
    /\ Post(BASE_URL \o "/dns/edit/" \o inv.cmd.domain \o "/" \o inv.cmd.id,
            Serialize_CreateEditRecord(CreateEditRecord(auth, inv.cmd)))

\* DnsAction::Delete, up to the request
SendDelete ==
    /\ pc = "start" /\ cli.ok /\ inv.cmd.command = "delete"
    /\ Post(BASE_URL \o "/dns/delete/" \o inv.cmd.domain \o "/" \o inv.cmd.id,
            Serialize_Auth(auth))

\* DnsAction::DeleteByNameType, up to the request
SendDeleteByNameType ==
    /\ pc = "start" /\ cli.ok /\ inv.cmd.command = "delete-by-name-type"
    /\ Post(DeleteByNameTypeUrl(inv.cmd.domain, inv.cmd.record_type, inv.cmd.name),
            Serialize_Auth(auth))

\* A faulty transport: a failed send starts main over.
SendFailed_Retry ==
    /\ pc = "awaiting"
    /\ pc' = "start"
    /\ UNCHANGED <<inv, requests, body_in, resp, stdout, err, exit_code>>

\* .send().await.context("Failed to contact Porkbun API")? takes its error
\* branch: no response, main returns the error.
SendFailed ==
    /\ pc = "awaiting"
    /\ Fail("TransportError", "Failed to contact Porkbun API")
    /\ UNCHANGED <<inv, requests, body_in, resp>>

\* Command::Domains, from the response on
RecvDomains ==
    /\ pc = "awaiting" /\ inv.cmd.command = "domains"
    /\ \E body \in Bodies :
        LET decoded == Decode_DomainListResponse(body) IN
        /\ Received(body, decoded)
        /\ IF decoded = None THEN DecodeFailed
           ELSE LET r == decoded[1]
                    st == check_status(r.status, r.message)
                IN  IF ~st.ok THEN Fail("ApiError", st.msg)
                    ELSE PrintAndExit(PrintDomains(r.domains))

\* DnsAction::List, from the response on
RecvList ==
    /\ pc = "awaiting" /\ inv.cmd.command = "list"
    /\ \E body \in Bodies :
        LET decoded == Decode_DnsListResponse(body) IN
        /\ Received(body, decoded)
        /\ IF decoded = None THEN DecodeFailed
           ELSE LET r == decoded[1]
                    st == check_status(r.status, r.message)
                IN  IF ~st.ok THEN Fail("ApiError", st.msg)
                    ELSE PrintAndExit(PrintRecords(inv.cmd.domain, r.records))

\* DnsAction::Create, from the response on
RecvCreate ==
    /\ pc = "awaiting" /\ inv.cmd.command = "create"
    /\ \E body \in Bodies :
        LET decoded == Decode_CreateResponse(body) IN
        /\ Received(body, decoded)
        /\ IF decoded = None THEN DecodeFailed
           ELSE LET r == decoded[1]
                    st == check_status(r.status, r.message)
                IN  IF ~st.ok THEN Fail("ApiError", st.msg)
                    ELSE PrintAndExit(
                           <<Line(CreatedLine(inv.cmd.record_type,
                                              display_name(inv.cmd.name),
                                              inv.cmd.domain, inv.cmd.content,
                                              id_str(r.id)))>>)

\* DnsAction::Edit, from the response on
RecvEdit ==
    /\ pc = "awaiting" /\ inv.cmd.command = "edit"
    /\ \E body \in Bodies :
        LET decoded == Decode_ApiResponse(body) IN
        /\ Received(body, decoded)
        /\ IF decoded = None THEN DecodeFailed
           ELSE LET r == decoded[1]
                    st == check_status(r.status, r.message)
                IN  IF ~st.ok THEN Fail("ApiError", st.msg)
                    ELSE PrintAndExit(
                           <<Line("Updated record " \o inv.cmd.id \o " on "
                                  \o inv.cmd.domain \o ".")>>)

\* DnsAction::Delete, from the response on
RecvDelete ==
    /\ pc = "awaiting" /\ inv.cmd.command = "delete"
    /\ \E body \in Bodies :
        LET decoded == Decode_ApiResponse(body) IN
        /\ Received(body, decoded)
        /\ IF decoded = None THEN DecodeFailed
           ELSE LET r == decoded[1]
                    st == check_status(r.status, r.message)
                IN  IF ~st.ok THEN Fail("ApiError", st.msg)
                    ELSE PrintAndExit(
                           <<Line("Deleted record " \o inv.cmd.id \o " from "
                                  \o inv.cmd.domain \o ".")>>)

\* DnsAction::DeleteByNameType, from the response on
RecvDeleteByNameType ==
    /\ pc = "awaiting" /\ inv.cmd.command = "delete-by-name-type"
    /\ \E body \in Bodies :
        LET decoded == Decode_ApiResponse(body) IN
        /\ Received(body, decoded)
        /\ IF decoded = None THEN DecodeFailed
           ELSE LET r == decoded[1]
                    st == check_status(r.status, r.message)
                IN  IF ~st.ok THEN Fail("ApiError", st.msg)
                    ELSE PrintAndExit(
                           <<Line(DeletedByNameTypeLine(
                                    DeleteByNameTypeDisplay(inv.cmd.record_type,
                                                            inv.cmd.name),
                                    inv.cmd.domain))>>)

Next ==
    \/ ParseError
    \/ SendDomains \/ SendList \/ SendCreate \/ SendEdit \/ SendDelete
    \/ SendDeleteByNameType
    \/ SendFailed
    \/ RecvDomains \/ RecvList \/ RecvCreate \/ RecvEdit \/ RecvDelete
    \/ RecvDeleteByNameType

Spec == Init /\ [][Next]_vars

----------------------------------------------------------------------------
(* Properties *)

cmd == inv.cmd

Missing(flag, env) == flag = None /\ env = None

CredentialsMissing ==
    \/ Missing(inv.creds.api_key_flag, inv.creds.api_key_env)
    \/ Missing(inv.creds.secret_key_flag, inv.creds.secret_key_env)

\* A response was decoded and its status is not the literal "SUCCESS".
NonSuccess == resp # None /\ resp[1].status # "SUCCESS"

\* A response was decoded, its status is "SUCCESS", and the command is c.
Succeeded(c) == cmd.command = c /\ resp # None /\ resp[1].status = "SUCCESS"

\* C1: whatever the command, a decoded response whose status is not the
\* literal "SUCCESS" ends the invocation with a failure and nothing on
\* standard output.
C1_NoOutputOnNonSuccess ==
    NonSuccess =>
        /\ pc = "done"
        /\ exit_code = Some(1)
        /\ err # None
        /\ stdout = <<>>

C1_Witness ==
    /\ NonSuccess
    /\ resp[1].status = "success"
    /\ cmd.command = "list"
    /\ "records" \in DOMAIN body_in[1]
    /\ stdout = <<>>
    /\ exit_code = Some(1)

\* C2: an invocation that gets past argument parsing issues exactly one POST
\* on every path (success, API error, transport error, decode error); none is
\* issued before parsing, and a failed send is not followed by a second one.
C2_ExactlyOneRequest ==
    /\ pc = "start" => requests = <<>>
    /\ pc = "awaiting" => Len(requests) = 1
    /\ (pc = "done" /\ exit_code # Some(2)) => Len(requests) = 1
    /\ (pc = "done" /\ err # None /\ err[1].kind = "TransportError") =>
            Len(requests) = 1

C2_Witness ==
    /\ pc = "done"
    /\ err # None
    /\ err[1].kind = "TransportError"
    /\ Len(requests) = 1

\* C3: with the API key or the secret key given neither by flag nor by
\* environment variable the invocation fails without any request; every
\* request sent carries apikey and secretapikey, each the flag's value if the
\* flag was given and the environment variable's otherwise.
C3_CredentialsBeforeRequest ==
    /\ CredentialsMissing =>
        /\ requests = <<>>
        /\ pc # "awaiting"
        /\ pc = "done" => (exit_code = Some(2) /\ err # None /\ stdout = <<>>)
    /\ \A i \in DOMAIN requests :
        LET b == requests[i].body
            c == inv.creds
        IN  /\ {"apikey", "secretapikey"} \subseteq DOMAIN b
            /\ b["apikey"] =
                 JString(IF c.api_key_flag # None THEN c.api_key_flag[1]
                         ELSE c.api_key_env[1])
            /\ b["secretapikey"] =
                 JString(IF c.secret_key_flag # None THEN c.secret_key_flag[1]
                         ELSE c.secret_key_env[1])

C3_Witness ==
    /\ pc = "done"
    /\ Missing(inv.creds.secret_key_flag, inv.creds.secret_key_env)
    /\ inv.creds.api_key_flag # None
    /\ exit_code = Some(2)
    /\ requests = <<>>

\* The body is an error body with nothing but a status and a message.
OnlyStatusAndMessage(b) ==
    /\ "status" \in DOMAIN b
    /\ DOMAIN b \subseteq {"status", "message"}
    /\ b["status"].t = "string"
    /\ b["status"].s # "SUCCESS"

\* C4: for every command, a response with a non-success status fails the
\* invocation with a non-zero exit and the error "API error: " followed by
\* the provider's message, or by "unknown error" when there is no message;
\* a body of only status and message decodes whatever the command.
C4_ApiErrorMessage ==
    /\ NonSuccess =>
        /\ exit_code # None /\ exit_code # Some(0)
        /\ err # None
        /\ err[1].msg =
             (IF resp[1].message # None
              THEN "API error: " \o resp[1].message[1]
              ELSE "API error: unknown error")
    /\ (body_in # None /\ OnlyStatusAndMessage(body_in[1])) =>
        LET b == body_in[1] IN
        /\ NonSuccess
        /\ err # None
        /\ ("message" \in DOMAIN b /\ b["message"].t = "string") =>
                err[1].msg = "API error: " \o b["message"].s
        /\ ("message" \notin DOMAIN b \/ b["message"].t = "null") =>
                err[1].msg = "API error: unknown error"

C4_Witness ==
    /\ cmd.command = "list"
    /\ body_in # None
    /\ DOMAIN body_in[1] = {"status", "message"}
    /\ body_in[1]["status"] = JString("ERROR")
    /\ body_in[1]["message"] = JString("Invalid API key")
    /\ err # None
    /\ err[1].msg = "API error: Invalid API key"
    /\ exit_code = Some(1)

\* The body carries key k exactly when option o was supplied, with o's value.
SentIffSupplied(b, k, o) ==
    /\ k \in DOMAIN b <=> o # None
    /\ k \in DOMAIN b => b[k] = JString(o[1])

\* C5: the body of a create or edit request has apikey, secretapikey, type and
\* content always, and each of name, ttl, prio exactly when that option was
\* supplied, with the supplied value; no value of the body is null.
C5_OptionalFieldsOmitted ==
    \A i \in DOMAIN requests :
        cmd.command \in {"create", "edit"} =>
            LET b == requests[i].body IN
            /\ {"apikey", "secretapikey", "type", "content"} \subseteq DOMAIN b
            /\ DOMAIN b \subseteq
                 {"apikey", "secretapikey", "type", "content", "name", "ttl", "prio"}
            /\ b["type"] = JString(cmd.record_type)
            /\ b["content"] = JString(cmd.content)
            /\ SentIffSupplied(b, "name", cmd.name)
            /\ SentIffSupplied(b, "ttl", cmd.ttl)
            /\ SentIffSupplied(b, "prio", cmd.prio)
            /\ \A k \in DOMAIN b : b[k].t = "string"

C5_Witness ==
    /\ cmd.command = "create"
    /\ requests # <<>>
    /\ cmd.name = None /\ cmd.ttl = Some("600") /\ cmd.prio = None
    /\ DOMAIN requests[1].body = {"apikey", "secretapikey", "type", "content", "ttl"}

\* The two-segment path of delete-by-name-type for the invocation.
TwoSegmentUrl ==
    BASE_URL \o "/dns/deleteByNameType/" \o cmd.domain \o "/" \o cmd.record_type

\* The three-segment path with subdomain s.
ThreeSegmentUrl(s) == TwoSegmentUrl \o "/" \o s

\* The non-empty subdomain labels an invocation may name.
Labels == {n[1] : n \in NameOptions \ {None, Some("")}}

\* C6: delete-by-name-type posts to the two-segment path when no subdomain is
\* given (the option omitted or empty) and to the three-segment path ending
\* in the subdomain when one is given; the third segment is there only then.
C6_DeleteByNameTypePath ==
    \A i \in DOMAIN requests :
        cmd.command = "delete-by-name-type" =>
            LET url == requests[i].url IN
            /\ cmd.name = None => url = TwoSegmentUrl
            /\ (cmd.name # None /\ cmd.name[1] # "") =>
                    url = ThreeSegmentUrl(cmd.name[1])
            /\ url # TwoSegmentUrl => (cmd.name # None /\ cmd.name[1] # "")

C6_Witness ==
    /\ cmd.command = "delete-by-name-type"
    /\ cmd.name = None
    /\ requests # <<>>
    /\ requests[1].url = TwoSegmentUrl

\* The display names a create confirmation may show.
DisplayNames == {"(root)", ""} \cup Labels

\* The id texts a create confirmation may show.
IdTexts == {"unknown", "null", "12345", "\"12345\""}

\* C7: a successful create shows the provider's id as plain text, the same
\* for the JSON number 12345 and the JSON string "12345" ("id: 12345"); with
\* no id it still succeeds and shows "unknown".
C7_CreateIdAsText ==
    Succeeded("create") =>
        LET b == body_in[1]
            shows(idtext) ==
                /\ Len(stdout) = 1
                /\ \E dn \in DisplayNames :
                     stdout[1].text =
                        CreatedLine(cmd.record_type, dn, cmd.domain, cmd.content, idtext)
        IN  /\ exit_code = Some(0)
            /\ ("id" \in DOMAIN b /\ b["id"].t = "number") => shows(Decimal(b["id"].n))
            /\ ("id" \in DOMAIN b /\ b["id"].t = "string") => shows(b["id"].s)
            /\ "id" \notin DOMAIN b => shows("unknown")

\* C8: the create confirmation names the record <subdomain>.<domain>, with
\* the root marker "(root)" in place of the subdomain exactly when the record
\* has no subdomain label (the name omitted or empty).
C8_CreateDisplayName ==
    Succeeded("create") =>
        LET expected == IF cmd.name = None \/ cmd.name = Some("")
                        THEN "(root)" ELSE cmd.name[1]
        IN  /\ Len(stdout) = 1
            /\ \E idtext \in IdTexts :
                 stdout[1].text =
                    CreatedLine(cmd.record_type, expected, cmd.domain, cmd.content, idtext)

\* C9: a successful domains or dns list response with an empty list prints
\* the one "not found" line and no table, and exits 0; with a non-empty list
\* it prints one table, a row per item, and no "not found" line.
C9_EmptyListLine ==
    /\ Succeeded("domains") =>
        /\ exit_code = Some(0)
        /\ resp[1].domains = <<>> => stdout = <<Line("No domains found.")>>
        /\ resp[1].domains # <<>> =>
            /\ Len(stdout) = 1
            /\ stdout[1].kind = "table"
            /\ Len(stdout[1].rows) = Len(resp[1].domains)
    /\ Succeeded("list") =>
        /\ exit_code = Some(0)
        /\ resp[1].records = <<>> =>
             stdout = <<Line("No DNS records found for " \o cmd.domain \o ".")>>
        /\ resp[1].records # <<>> =>
            /\ Len(stdout) = 1
            /\ stdout[1].kind = "table"
            /\ Len(stdout[1].rows) = Len(resp[1].records)

C9_Witness ==
    /\ Succeeded("domains")
    /\ "domains" \in DOMAIN body_in[1]
    /\ body_in[1]["domains"] = JArray(<<>>)
    /\ stdout = <<Line("No domains found.")>>
    /\ exit_code = Some(0)

\* The confirmation of delete-by-name-type says `display`.
Confirms(display) ==
    /\ Len(stdout) = 1
    /\ stdout[1].text = DeletedByNameTypeLine(display, cmd.domain)

\* The confirmation says "root".
SaysRoot == Confirms("root " \o cmd.record_type)

\* The confirmation does not say "root" and names the subdomain s.
NamesSubdomain(s) == ~SaysRoot /\ Confirms(s \o " " \o cmd.record_type)

\* C10 as stated: for every value of the name option the confirmation says
\* "root" if and only if the request went to the two-segment path, and names
\* a subdomain if and only if that subdomain was the third path segment.
C10_ConfirmationIffPath ==
    Succeeded("delete-by-name-type") =>
        /\ SaysRoot <=> requests[1].url = TwoSegmentUrl
        /\ \A s \in Labels :
             NamesSubdomain(s) <=> requests[1].url = ThreeSegmentUrl(s)

\* C10 amended: the path decides the confirmation for every value of the
\* name option, the empty string included: the two-segment path gives
\* "root", the three-segment path gives its subdomain.  The confirmation
\* decides the path for every name but the label "root", whose confirmation
\* reads the same as the root's.
C10_ConfirmationFollowsPath ==
    Succeeded("delete-by-name-type") =>
        /\ requests[1].url = TwoSegmentUrl => SaysRoot
        /\ \A s \in Labels :
             requests[1].url = ThreeSegmentUrl(s) => Confirms(s \o " " \o cmd.record_type)
        /\ cmd.name # Some("root") =>
            /\ SaysRoot => requests[1].url = TwoSegmentUrl
            /\ \A s \in Labels :
                 NamesSubdomain(s) => requests[1].url = ThreeSegmentUrl(s)

C10_Witness ==
    /\ Succeeded("delete-by-name-type")
    /\ cmd.name = Some("")
    /\ requests[1].url = TwoSegmentUrl
    /\ Confirms("root " \o cmd.record_type)

====
